---- MODULE Spec2Model ----
(***************************************************************************)
(* Model of the community-classes API (apps/api/src/index.ts) and of the   *)
(* three tables it works on (apps/api/supabase/schema.sql).                *)
(*                                                                         *)
(* Every request handler is a sequence of steps, one per `await`: the      *)
(* code between two awaits runs without interleaving (Node's event loop),  *)
(* and every awaited call is one atomic statement of the identity          *)
(* provider or of the database.  Several handlers are in flight at once.   *)
(* The answers of the two external services (a provider error, a store     *)
(* error, the user a token resolves to) are chosen when they arrive.       *)
(***************************************************************************)
EXTENDS Integers, FiniteSets, Sequences, TLC

\* ---- bounds of the model ------------------------------------------------
NPrincipals == 2
NClassIds == 1
NHandlers == 2
MaxCap == 2
NClassPair == 2
NListPrincipals == 3

\* ---- constants of the program -------------------------------------------
MinCapacity == 1
MaxCapacity == 1000
NoId == 0

Principals == 1..NPrincipals
ClassIds == 1..NClassIds
Handlers == 1..NHandlers

UserRole == {"admin", "member"}
NoRole == "none"

\* capacities a client may send: -1 and 0 (invalid) and the valid 1..MaxCap
CapacityInputs == {-1, 0} \cup (1..MaxCap)

\* Authorization header of a request: absent, present but not of the form
\* "Bearer <token>", or a bearer token
HeaderKinds == {"absent", "malformed", "bearer"}

NoBody == [wellFormed |-> FALSE, classId |-> NoId, capacity |-> 0, email |-> NoId]

VARIABLES
  users,                \* table public.users: principal id -> role or NoRole
  community_classes,    \* table public.community_classes: set of rows
  class_registrations,  \* table public.class_registrations: rows per (class, member)
  handler,              \* the request handlers: in flight, or the response sent
  admitted              \* history: number of 201 responses per (class, member)

vars == <<users, community_classes, class_registrations, handler, admitted>>

\* header: the Authorization header the request came with ("none": not looked
\* at); classRecord: the class rows a select returned; read: history, the
\* request has read a table; payload: the rows of the response body
Idle ==
  [pc |-> "idle", op |-> "none", header |-> "none", body |-> NoBody,
   user |-> NoId, classRecord |-> {}, registeredClassIds |-> {},
   already |-> FALSE, wrote |-> FALSE,
   read |-> FALSE, status |-> 0, reason |-> "none", payload |-> {}]

\* ---- pure helpers -------------------------------------------------------

\* faulty variant: the scheme and the token of the header are not checked
readBearerTokenLax(header) ==
  IF header = "absent" THEN "null" ELSE "token"

readBearerToken(header) ==
  IF header = "absent" THEN "null"
  ELSE IF header = "malformed" THEN "null"
  ELSE "token"

signupSchema(body) == body.wellFormed

loginSchema(body) == body.wellFormed

\* faulty variant: the schema without .min(1)
createClassSchemaNoMin(body) ==
  /\ body.wellFormed
  /\ body.capacity <= MaxCapacity

createClassSchema(body) ==
  /\ body.wellFormed
  /\ body.capacity >= MinCapacity
  /\ body.capacity <= MaxCapacity

registerSchema(body) == body.wellFormed

\* faulty variant: the role the account got at signup, not the stored one
fetchUserRoleStale(userId, storeError) ==
  IF storeError \/ users[userId] = NoRole THEN NoRole ELSE "member"

\* the role fetchUserRole returns: null on a store error or a missing row
fetchUserRole(userId, storeError) ==
  IF storeError \/ users[userId] = NoRole THEN NoRole
  ELSE IF users[userId] # "admin" /\ users[userId] # "member" THEN NoRole
  ELSE users[userId]

ClassRows(classId) == {r \in community_classes : r.id = classId}

UsedClassIds == {r.id : r \in community_classes}

\* the class ids of the model: those the ledger has a place for
ClassIdSpace == {k[1] : k \in DOMAIN class_registrations}

\* gen_random_uuid(): an id no row has (the least one, by symmetry)
FreshClassId == CHOOSE c \in ClassIdSpace \ UsedClassIds :
                  \A d \in ClassIdSpace \ UsedClassIds : c <= d

\* faulty variant: the insert written as an upsert on created_by
InsertClassReplacing(row) ==
  {r \in community_classes : r.created_by # row.created_by} \cup {row}

\* .from("community_classes").insert(classPayload)
InsertClass(row) == community_classes \cup {row}

\* faulty variant: the insert replaces the rows of the class
InsertRegistrationReplacing(classId, memberId) ==
  [k \in DOMAIN class_registrations |->
     IF k = <<classId, memberId>> THEN 1
     ELSE IF k[1] = classId THEN 0
     ELSE class_registrations[k]]

\* .from("class_registrations").insert({ class_id, member_id })
InsertRegistration(classId, memberId) ==
  [class_registrations EXCEPT ![<<classId, memberId>>] = @ + 1]

\* faulty variant: the member id taken from the request body when it has one
MemberIdFromBody(h) == IF h.body.email # NoId THEN h.body.email ELSE h.user

\* member_id: user.id
MemberIdOf(h) == h.user

\* faulty variant: the count without its .eq("class_id", classId) filter
CountForAnyClass(classId) ==
  LET RECURSIVE Sum(_)
      Sum(S) == IF S = {} THEN 0
                ELSE LET k == CHOOSE x \in S : TRUE
                     IN class_registrations[k] + Sum(S \ {k})
  IN Sum(DOMAIN class_registrations)

\* select id ... { count: "exact" } .eq("class_id", classId)
CountFor(classId) ==
  LET RECURSIVE Sum(_)
      Sum(S) == IF S = {} THEN 0
                ELSE LET k == CHOOSE x \in S : TRUE
                     IN class_registrations[k] + Sum(S \ {k})
  IN Sum({k \in DOMAIN class_registrations : k[1] = classId})

\* faulty variant: the handler without its `if (!classRecord)` branch
ClassMissingNever(classRecord) == FALSE

\* !classRecord: maybeSingle() found no row
ClassMissing(classRecord) == classRecord = {}

\* classRecord.capacity
CapacityOf(classRecord) ==
  LET r == CHOOSE x \in classRecord : TRUE IN r.capacity

\* faulty variant: every error answered like the provider's error at signup
ErrorStatusAll400(origin) == IF origin = "provider" THEN 400 ELSE 400

\* the status of an error response: 400 for an error of the identity
\* provider at signup, 500 for an error of the store
ErrorStatus(origin) == IF origin = "provider" THEN 400 ELSE 500

\* faulty variant: the existence pre-check finds nothing
ExistingRegistrationsNone(classId, memberId) == 0

\* select id ... .eq("class_id", classId).eq("member_id", memberId)
ExistingRegistrations(classId, memberId) ==
  class_registrations[<<classId, memberId>>]

\* faulty variant: the table without its unique (class_id, member_id) constraint
UniqueViolationOff(classId, memberId) == FALSE

\* unique (class_id, member_id): would one more row for the pair violate it
UniqueViolation(classId, memberId) ==
  class_registrations[<<classId, memberId>>] > 0

\* check (capacity > 0) of community_classes
CheckViolation(capacity) == ~(capacity > 0)

\* faulty variant: every endpoint restricted to admins
AllowedRolesAdminOnly(op) == {"admin"}

\* faulty variant: requireUser called without allowedRoles
AllowedRolesAny(op) == UserRole

\* the allowedRoles argument each endpoint passes to requireUser
AllowedRoles(op) ==
  IF op = "createClass" THEN {"admin"}
  ELSE IF op = "register" \/ op = "memberClasses" THEN {"member"}
  ELSE UserRole

\* faulty variant: the select without its .eq("member_id", user.id) filter
RegisteredClassIdsAnyMember(memberId) ==
  {k[1] : k \in {x \in DOMAIN class_registrations : class_registrations[x] > 0}}

\* new Set(registrations.map((row) => row.class_id)) of
\* select class_id ... .eq("member_id", user.id)
RegisteredClassIds(memberId) ==
  {k[1] : k \in {x \in DOMAIN class_registrations :
                   x[2] = memberId /\ class_registrations[x] > 0}}

\* faulty variant: the map of counts is never filled
RegistrationCountsNone(allRegistrations, classId) == 0

\* registrationCounts.get(classId) ?? 0, after the loop over allRegistrations
\* added one per row of the class
RegistrationCounts(allRegistrations, classId) ==
  LET RECURSIVE Sum(_)
      Sum(S) == IF S = {} THEN 0
                ELSE LET k == CHOOSE x \in S : TRUE
                     IN allRegistrations[k] + Sum(S \ {k})
  IN Sum({k \in DOMAIN allRegistrations : k[1] = classId})

\* faulty variant: the upsert reports success and stores nothing
upsertUserRoleLost(userId, role) == users

\* .upsert({ id, role }, { onConflict: "id" }): insert, or update the row
upsertUserRole(userId, role) == [users EXCEPT ![userId] = role]

\* faulty variant: the capacity check with > for >=
ClassFullOffByOne(count, capacity) == count > capacity

\* count >= classRecord.capacity
ClassFull(count, capacity) == count >= capacity

\* ---- responses ----------------------------------------------------------

\* a handler slot takes a new request when it serves none
Free(p) == handler[p].pc \in {"idle", "done"}

\* faulty variant: the response is sent but the handler does not return
ResponseNoReturn(h, status, reason) ==
  [h EXCEPT !.status = status, !.reason = reason]

\* response.status(status).json(...) and return: what is left of the request
\* is its response (and, as history, whether it wrote to the store and
\* whether its member was registered for its class when it was authenticated)
Response(h, status, reason) ==
  [Idle EXCEPT !.pc = "done", !.op = h.op, !.header = h.header,
               !.already = h.already, !.wrote = h.wrote, !.read = h.read,
               !.status = status, !.reason = reason, !.payload = h.payload,
               !.body = IF reason = "InvalidPayload" THEN h.body ELSE NoBody]

Respond(p, status, reason) ==
  handler' = [handler EXCEPT ![p] = Response(handler[p], status, reason)]

\* the handler awaits its next call
Await(p, h) == handler' = [handler EXCEPT ![p] = h]

StoreUnchanged == UNCHANGED <<users, community_classes, class_registrations, admitted>>

Init ==
  /\ users = [u \in Principals |-> NoRole]
  /\ community_classes = {}
  /\ class_registrations = [k \in ClassIds \X Principals |-> 0]
  /\ handler = [p \in Handlers |-> Idle]
  /\ admitted = [k \in ClassIds \X Principals |-> 0]

\* ---- POST /api/auth/signup ----------------------------------------------

SignupBodies ==
  {[NoBody EXCEPT !.wellFormed = TRUE, !.email = u] : u \in Principals}
    \cup {NoBody}

StartSignup(p, body) ==
  /\ Free(p)
  /\ IF ~signupSchema(body)
     THEN handler' = [handler EXCEPT ![p] =
            Response([Idle EXCEPT !.op = "signup", !.body = body], 400, "InvalidPayload")]
     ELSE Await(p, [Idle EXCEPT !.pc = "signUp", !.op = "signup", !.body = body])
  /\ StoreUnchanged

\* authClient.auth.signUp answers: an error, a user, or no user object
SignUpReturns(p, outcome) ==
  /\ handler[p].pc = "signUp"
  /\ IF outcome = "error" THEN Respond(p, ErrorStatus("provider"), "ProviderError")
     ELSE IF outcome = "user"
       THEN Await(p, [handler[p] EXCEPT !.pc = "upsertUserRole",
                                        !.user = handler[p].body.email])
     ELSE Respond(p, 201, "AccountCreated")
  /\ StoreUnchanged

UpsertUserRoleReturns(p, storeError) ==
  /\ handler[p].pc = "upsertUserRole"
  /\ LET h == [handler[p] EXCEPT !.wrote = TRUE]
     IN IF storeError
        THEN /\ handler' = [handler EXCEPT ![p] = Response(h, ErrorStatus("store"), "StoreError")]
             /\ users' = users
        ELSE /\ handler' = [handler EXCEPT ![p] = Response(h, 201, "AccountCreated")]
             /\ users' = upsertUserRole(h.user, "member")
  /\ UNCHANGED <<community_classes, class_registrations, admitted>>

\* ---- requireUser --------------------------------------------------------

\* faulty variant: the payload is validated before the caller is looked at
requireUserAfterValidation(op, header, body) ==
  IF \/ op = "createClass" /\ ~createClassSchema(body)
     \/ op = "register" /\ ~registerSchema(body)
  THEN Response([Idle EXCEPT !.op = op, !.header = header, !.body = body],
                400, "InvalidPayload")
  ELSE IF readBearerToken(header) = "null"
  THEN Response([Idle EXCEPT !.op = op, !.header = header], 401, "MissingToken")
  ELSE [Idle EXCEPT !.pc = "getUser", !.op = op, !.header = header, !.body = body]

\* a request to a bearer-protected endpoint arrives: requireUser reads the
\* header and, with a token, asks the provider
requireUser(op, header, body) ==
  IF readBearerToken(header) = "null"
  THEN Response([Idle EXCEPT !.op = op, !.header = header], 401, "MissingToken")
  ELSE [Idle EXCEPT !.pc = "getUser", !.op = op, !.header = header, !.body = body]

\* authClient.auth.getUser(token) answers: sub = NoId is an error (invalid or
\* expired token), otherwise the user the token belongs to
GetUserReturns(p, sub) ==
  /\ handler[p].pc = "getUser"
  /\ IF sub = NoId THEN Respond(p, 401, "InvalidToken")
     ELSE Await(p, [handler[p] EXCEPT
            !.pc = "fetchUserRole", !.user = sub,
            !.already = /\ handler[p].op = "register"
                        /\ handler[p].body.classId # NoId
                        /\ class_registrations[<<handler[p].body.classId, sub>>] > 0])
  /\ StoreUnchanged

\* what the endpoint does right after requireUser returned a user
AfterRequireUser(p, role) ==
  LET h == [handler[p] EXCEPT !.read = TRUE] IN
  IF h.op = "createClass"
    THEN IF ~createClassSchema(h.body)
           THEN handler' = [handler EXCEPT ![p] = Response(h, 400, "InvalidPayload")]
         ELSE Await(p, [h EXCEPT !.pc = "insertClass"])
  ELSE IF h.op = "register"
    THEN IF ~registerSchema(h.body)
           THEN handler' = [handler EXCEPT ![p] = Response(h, 400, "InvalidPayload")]
         ELSE Await(p, [h EXCEPT !.pc = "classLookup"])
  ELSE IF h.op = "memberClasses"
    THEN Await(p, [h EXCEPT !.pc = "selectClasses"])
  ELSE handler' = [handler EXCEPT ![p] =
         Response([h EXCEPT !.payload = {[userId |-> h.user, role |-> role]}],
                  200, "OK")]

FetchUserRoleReturns(p, storeError) ==
  /\ handler[p].pc = "fetchUserRole"
  /\ LET role == fetchUserRole(handler[p].user, storeError)
         h == [handler[p] EXCEPT !.read = TRUE]
     IN IF role = NoRole
          THEN handler' = [handler EXCEPT ![p] = Response(h, 403, "NoRole")]
        ELSE IF role \notin AllowedRoles(h.op)
          THEN handler' = [handler EXCEPT ![p] = Response(h, 403, "InsufficientRole")]
        ELSE AfterRequireUser(p, role)
  /\ StoreUnchanged

\* ---- GET /api/auth/me ----------------------------------------------------

StartMe(p, header) ==
  /\ Free(p)
  /\ Await(p, requireUser("me", header, NoBody))
  /\ StoreUnchanged

\* ---- POST /api/admin/classes --------------------------------------------

CreateClassBodies ==
  {[NoBody EXCEPT !.wellFormed = TRUE, !.capacity = c] : c \in CapacityInputs}
    \cup {NoBody}

StartCreateClass(p, header, body) ==
  /\ Free(p)
  /\ Await(p, requireUser("createClass", header, body))
  /\ StoreUnchanged

InsertClassReturns(p, storeError) ==
  /\ handler[p].pc = "insertClass"
  /\ LET h == [handler[p] EXCEPT !.wrote = TRUE]
     IN IF storeError \/ ClassIdSpace \ UsedClassIds = {}
        THEN /\ handler' = [handler EXCEPT ![p] = Response(h, ErrorStatus("store"), "StoreError")]
             /\ community_classes' = community_classes
        ELSE IF CheckViolation(h.body.capacity)
        THEN /\ handler' = [handler EXCEPT ![p] = Response(h, ErrorStatus("store"), "CheckViolation")]
             /\ community_classes' = community_classes
        ELSE /\ handler' = [handler EXCEPT ![p] = Response(h, 201, "ClassCreated")]
             /\ community_classes' =
                  InsertClass([id |-> FreshClassId, capacity |-> h.body.capacity,
                               created_by |-> h.user])
  /\ UNCHANGED <<users, class_registrations, admitted>>

\* ---- POST /api/member/registrations -------------------------------------

RegisterBodies ==
  {[NoBody EXCEPT !.wellFormed = TRUE, !.classId = c] : c \in ClassIds}
    \cup {NoBody}

StartRegister(p, header, body) ==
  /\ Free(p)
  /\ Await(p, requireUser("register", header, body))
  /\ StoreUnchanged

ClassLookupReturns(p, storeError) ==
  /\ handler[p].pc = "classLookup"
  /\ LET h == handler[p]
     IN IF storeError THEN Respond(p, ErrorStatus("store"), "StoreError")
        ELSE IF ClassMissing(ClassRows(h.body.classId))
          THEN Respond(p, 404, "ClassNotFound")
        ELSE Await(p, [h EXCEPT !.pc = "existingRegistration",
                                !.classRecord = ClassRows(h.body.classId)])
  /\ StoreUnchanged

ExistingRegistrationReturns(p, storeError) ==
  /\ handler[p].pc = "existingRegistration"
  /\ LET h == handler[p]
         rows == ExistingRegistrations(h.body.classId, h.user)
     IN IF storeError \/ rows > 1 THEN Respond(p, ErrorStatus("store"), "StoreError")
        ELSE IF rows = 1 THEN Respond(p, 409, "AlreadyRegistered")
        ELSE Await(p, [h EXCEPT !.pc = "count"])
  /\ StoreUnchanged

CountReturns(p, storeError) ==
  /\ handler[p].pc = "count"
  /\ LET h == handler[p]
     IN IF storeError THEN Respond(p, ErrorStatus("store"), "StoreError")
        ELSE IF ClassFull(CountFor(h.body.classId), CapacityOf(h.classRecord))
          THEN Respond(p, 409, "ClassFull")
        ELSE Await(p, [h EXCEPT !.pc = "insertRegistration"])
  /\ StoreUnchanged

InsertRegistrationReturns(p, storeError) ==
  /\ handler[p].pc = "insertRegistration"
  /\ LET h == [handler[p] EXCEPT !.wrote = TRUE]
         k == <<h.body.classId, MemberIdOf(h)>>
     IN IF storeError
        THEN /\ handler' = [handler EXCEPT ![p] = Response(h, ErrorStatus("store"), "StoreError")]
             /\ UNCHANGED <<class_registrations, admitted>>
        ELSE IF UniqueViolation(k[1], k[2])
        THEN /\ handler' = [handler EXCEPT ![p] = Response(h, ErrorStatus("store"), "UniqueViolation")]
             /\ UNCHANGED <<class_registrations, admitted>>
        ELSE /\ handler' = [handler EXCEPT ![p] = Response(h, 201, "Registered")]
             /\ class_registrations' = InsertRegistration(k[1], k[2])
             /\ admitted' = [admitted EXCEPT ![k] = @ + 1]
  /\ UNCHANGED <<users, community_classes>>

\* ---- administration outside the API -------------------------------------

\* update public.users set role = r where id = u
SetRoleOutOfBand(u, r) ==
  /\ users[u] # NoRole
  /\ users[u] # r
  /\ users' = [users EXCEPT ![u] = r]
  /\ UNCHANGED <<community_classes, class_registrations, handler, admitted>>

Next ==
  \/ \E p \in Handlers, b \in SignupBodies : StartSignup(p, b)
  \/ \E p \in Handlers, o \in {"error", "user", "nouser"} : SignUpReturns(p, o)
  \/ \E p \in Handlers, e \in BOOLEAN : UpsertUserRoleReturns(p, e)
  \/ \E p \in Handlers, u \in Principals \cup {NoId} : GetUserReturns(p, u)
  \/ \E p \in Handlers, e \in BOOLEAN : FetchUserRoleReturns(p, e)
  \/ \E p \in Handlers, hd \in HeaderKinds : StartMe(p, hd)
  \/ \E p \in Handlers, hd \in HeaderKinds, b \in CreateClassBodies : StartCreateClass(p, hd, b)
  \/ \E p \in Handlers, e \in BOOLEAN : InsertClassReturns(p, e)
  \/ \E p \in Handlers, hd \in HeaderKinds, b \in RegisterBodies : StartRegister(p, hd, b)
  \/ \E p \in Handlers, e \in BOOLEAN : ClassLookupReturns(p, e)
  \/ \E p \in Handlers, e \in BOOLEAN : ExistingRegistrationReturns(p, e)
  \/ \E p \in Handlers, e \in BOOLEAN : CountReturns(p, e)
  \/ \E p \in Handlers, e \in BOOLEAN : InsertRegistrationReturns(p, e)
  \/ \E u \in Principals, r \in UserRole : SetRoleOutOfBand(u, r)

Spec == Init /\ [][Next]_vars

\* ---- registration attempts that do not overlap --------------------------

\* no registration attempt is between its request and its response
NoRegistrationInFlight ==
  \A q \in Handlers : handler[q].op = "register" => handler[q].pc = "done"

\* a registration request that arrives when the one before it was answered
SeqStartRegister(p, header, body) ==
  /\ NoRegistrationInFlight
  /\ Free(p)
  /\ Await(p, requireUser("register", header, body))
  /\ StoreUnchanged

NextSequential ==
  \/ \E p \in Handlers, b \in SignupBodies : StartSignup(p, b)
  \/ \E p \in Handlers, o \in {"error", "user", "nouser"} : SignUpReturns(p, o)
  \/ \E p \in Handlers, e \in BOOLEAN : UpsertUserRoleReturns(p, e)
  \/ \E p \in Handlers, u \in Principals \cup {NoId} : GetUserReturns(p, u)
  \/ \E p \in Handlers, e \in BOOLEAN : FetchUserRoleReturns(p, e)
  \/ \E p \in Handlers, hd \in HeaderKinds : StartMe(p, hd)
  \/ \E p \in Handlers, hd \in HeaderKinds, b \in CreateClassBodies : StartCreateClass(p, hd, b)
  \/ \E p \in Handlers, e \in BOOLEAN : InsertClassReturns(p, e)
  \/ \E p \in Handlers, hd \in HeaderKinds, b \in RegisterBodies : SeqStartRegister(p, hd, b)
  \/ \E p \in Handlers, e \in BOOLEAN : ClassLookupReturns(p, e)
  \/ \E p \in Handlers, e \in BOOLEAN : ExistingRegistrationReturns(p, e)
  \/ \E p \in Handlers, e \in BOOLEAN : CountReturns(p, e)
  \/ \E p \in Handlers, e \in BOOLEAN : InsertRegistrationReturns(p, e)
  \/ \E u \in Principals, r \in UserRole : SetRoleOutOfBand(u, r)

SpecSequential == Init /\ [][NextSequential]_vars

\* ---- GET /api/member/classes --------------------------------------------

ListPrincipals == 1..NListPrincipals

StartMemberClasses(p, header) ==
  /\ Free(p)
  /\ Await(p, requireUser("memberClasses", header, NoBody))
  /\ StoreUnchanged

\* select ... from community_classes
SelectClassesReturns(p, storeError) ==
  /\ handler[p].pc = "selectClasses"
  /\ IF storeError THEN Respond(p, ErrorStatus("store"), "StoreError")
     ELSE Await(p, [handler[p] EXCEPT !.pc = "selectMine",
                                      !.classRecord = community_classes])
  /\ StoreUnchanged

\* select class_id from class_registrations where member_id = user.id
SelectMineReturns(p, storeError) ==
  /\ handler[p].pc = "selectMine"
  /\ IF storeError THEN Respond(p, ErrorStatus("store"), "StoreError")
     ELSE Await(p, [handler[p] EXCEPT
            !.pc = "selectAll",
            !.registeredClassIds = RegisteredClassIds(handler[p].user)])
  /\ StoreUnchanged

\* select class_id from class_registrations, then the response payload
SelectAllReturns(p, storeError) ==
  /\ handler[p].pc = "selectAll"
  /\ LET h == handler[p]
         responsePayload ==
           {[id |-> item.id, capacity |-> item.capacity,
             registrationCount |-> RegistrationCounts(class_registrations, item.id),
             isRegistered |-> item.id \in h.registeredClassIds] :
              item \in h.classRecord}
     IN IF storeError THEN Respond(p, ErrorStatus("store"), "StoreError")
        ELSE handler' = [handler EXCEPT ![p] =
               Response([h EXCEPT !.payload = responsePayload], 200, "OK")]
  /\ StoreUnchanged

\* the tables after the principals signed up and principal 1, admin at the
\* time, created the classes with the largest capacity
InitListing ==
  /\ users = [u \in ListPrincipals |-> "member"]
  /\ community_classes =
       {[id |-> c, capacity |-> MaxCap, created_by |-> 1] : c \in ClassIds}
  /\ class_registrations = [k \in ClassIds \X ListPrincipals |-> 0]
  /\ handler = [p \in Handlers |-> Idle]
  /\ admitted = [k \in ClassIds \X ListPrincipals |-> 0]

NextListing ==
  \/ \E p \in Handlers, hd \in HeaderKinds : StartMemberClasses(p, hd)
  \/ \E p \in Handlers, u \in ListPrincipals \cup {NoId} : GetUserReturns(p, u)
  \/ \E p \in Handlers, e \in BOOLEAN : FetchUserRoleReturns(p, e)
  \/ \E p \in Handlers, e \in BOOLEAN : SelectClassesReturns(p, e)
  \/ \E p \in Handlers, e \in BOOLEAN : SelectMineReturns(p, e)
  \/ \E p \in Handlers, e \in BOOLEAN : SelectAllReturns(p, e)
  \/ \E p \in Handlers, hd \in HeaderKinds, b \in RegisterBodies : StartRegister(p, hd, b)
  \/ \E p \in Handlers, e \in BOOLEAN : ClassLookupReturns(p, e)
  \/ \E p \in Handlers, e \in BOOLEAN : ExistingRegistrationReturns(p, e)
  \/ \E p \in Handlers, e \in BOOLEAN : CountReturns(p, e)
  \/ \E p \in Handlers, e \in BOOLEAN : InsertRegistrationReturns(p, e)

SpecListing == InitListing /\ [][NextListing]_vars

\* ---- registrations for several classes ----------------------------------

ClassPair == 1..NClassPair

\* the tables after the principals signed up and principal 1, admin at the
\* time, created class c with capacity c
InitTwoClasses ==
  /\ users = [u \in Principals |-> "member"]
  /\ community_classes =
       {[id |-> c, capacity |-> c, created_by |-> 1] : c \in ClassPair}
  /\ class_registrations = [k \in ClassPair \X Principals |-> 0]
  /\ handler = [p \in Handlers |-> Idle]
  /\ admitted = [k \in ClassPair \X Principals |-> 0]

RegisterBodiesPair ==
  {[NoBody EXCEPT !.wellFormed = TRUE, !.classId = c] : c \in ClassPair}
    \cup {NoBody}

NextTwoClasses ==
  \/ \E p \in Handlers, hd \in HeaderKinds, b \in RegisterBodiesPair : StartRegister(p, hd, b)
  \/ \E p \in Handlers, u \in Principals \cup {NoId} : GetUserReturns(p, u)
  \/ \E p \in Handlers, e \in BOOLEAN : FetchUserRoleReturns(p, e)
  \/ \E p \in Handlers, e \in BOOLEAN : ClassLookupReturns(p, e)
  \/ \E p \in Handlers, e \in BOOLEAN : ExistingRegistrationReturns(p, e)
  \/ \E p \in Handlers, e \in BOOLEAN : CountReturns(p, e)
  \/ \E p \in Handlers, e \in BOOLEAN : InsertRegistrationReturns(p, e)

SpecTwoClasses == InitTwoClasses /\ [][NextTwoClasses]_vars

\* ---- POST /api/auth/login and the accounts -------------------------------

LoginBodies ==
  {[NoBody EXCEPT !.wellFormed = TRUE, !.email = u] : u \in Principals}
    \cup {NoBody}

StartLogin(p, body) ==
  /\ Free(p)
  /\ IF ~loginSchema(body)
     THEN handler' = [handler EXCEPT ![p] =
            Response([Idle EXCEPT !.op = "login", !.body = body], 400, "InvalidPayload")]
     ELSE Await(p, [Idle EXCEPT !.pc = "signIn", !.op = "login", !.body = body])
  /\ StoreUnchanged

\* authClient.auth.signInWithPassword answers: an error or no session, or
\* the session of the account of the email
SignInReturns(p, outcome) ==
  /\ handler[p].pc = "signIn"
  /\ IF outcome = "error" THEN Respond(p, 401, "LoginFailed")
     ELSE Await(p, [handler[p] EXCEPT !.pc = "loginFetchUserRole",
                                      !.user = handler[p].body.email])
  /\ StoreUnchanged

LoginFetchUserRoleReturns(p, storeError) ==
  /\ handler[p].pc = "loginFetchUserRole"
  /\ LET role == fetchUserRole(handler[p].user, storeError)
         h == [handler[p] EXCEPT !.read = TRUE]
     IN IF role = NoRole
          THEN handler' = [handler EXCEPT ![p] = Response(h, 403, "NoRole")]
        ELSE handler' = [handler EXCEPT ![p] =
               Response([h EXCEPT !.payload = {[userId |-> h.user, role |-> role]}],
                        200, "OK")]
  /\ StoreUnchanged

\* the endpoints as they run while no class exists and no role was changed
\* outside the API: no admin, so no class is created and every class lookup
\* finds nothing
NextAccounts ==
  \/ \E p \in Handlers, b \in SignupBodies : StartSignup(p, b)
  \/ \E p \in Handlers, o \in {"error", "user", "nouser"} : SignUpReturns(p, o)
  \/ \E p \in Handlers, e \in BOOLEAN : UpsertUserRoleReturns(p, e)
  \/ \E p \in Handlers, b \in LoginBodies : StartLogin(p, b)
  \/ \E p \in Handlers, o \in {"error", "session"} : SignInReturns(p, o)
  \/ \E p \in Handlers, e \in BOOLEAN : LoginFetchUserRoleReturns(p, e)
  \/ \E p \in Handlers, hd \in HeaderKinds : StartMe(p, hd)
  \/ \E p \in Handlers, hd \in HeaderKinds, b \in CreateClassBodies : StartCreateClass(p, hd, b)
  \/ \E p \in Handlers, hd \in HeaderKinds, b \in RegisterBodies : StartRegister(p, hd, b)
  \/ \E p \in Handlers, e \in BOOLEAN : ClassLookupReturns(p, e)
  \/ \E p \in Handlers, hd \in HeaderKinds : StartMemberClasses(p, hd)
  \/ \E p \in Handlers, e \in BOOLEAN : SelectClassesReturns(p, e)
  \/ \E p \in Handlers, e \in BOOLEAN : SelectMineReturns(p, e)
  \/ \E p \in Handlers, e \in BOOLEAN : SelectAllReturns(p, e)
  \/ \E p \in Handlers, u \in Principals \cup {NoId} : GetUserReturns(p, u)
  \/ \E p \in Handlers, e \in BOOLEAN : FetchUserRoleReturns(p, e)

SpecAccounts == Init /\ [][NextAccounts]_vars

\* ---- classes created while members register and list --------------------

\* the tables after the principals signed up and principal 1 was promoted
\* to admin; no class exists yet
InitCatalog ==
  /\ users = [u \in Principals |-> IF u = 1 THEN "admin" ELSE "member"]
  /\ community_classes = {}
  /\ class_registrations = [k \in ClassPair \X Principals |-> 0]
  /\ handler = [p \in Handlers |-> Idle]
  /\ admitted = [k \in ClassPair \X Principals |-> 0]

\* registration bodies with a key besides classId: a member id the caller
\* names (held in the email field), which registerSchema does not declare
RegisterBodiesNamed ==
  {[NoBody EXCEPT !.wellFormed = TRUE, !.classId = c, !.email = m] :
     c \in ClassPair, m \in Principals \cup {NoId}}
    \cup {NoBody}

NextCatalog ==
  \/ \E p \in Handlers, hd \in HeaderKinds, b \in CreateClassBodies : StartCreateClass(p, hd, b)
  \/ \E p \in Handlers, e \in BOOLEAN : InsertClassReturns(p, e)
  \/ \E p \in Handlers, hd \in HeaderKinds, b \in RegisterBodiesNamed : StartRegister(p, hd, b)
  \/ \E p \in Handlers, e \in BOOLEAN : ClassLookupReturns(p, e)
  \/ \E p \in Handlers, e \in BOOLEAN : ExistingRegistrationReturns(p, e)
  \/ \E p \in Handlers, e \in BOOLEAN : CountReturns(p, e)
  \/ \E p \in Handlers, e \in BOOLEAN : InsertRegistrationReturns(p, e)
  \/ \E p \in Handlers, hd \in HeaderKinds : StartMemberClasses(p, hd)
  \/ \E p \in Handlers, e \in BOOLEAN : SelectClassesReturns(p, e)
  \/ \E p \in Handlers, e \in BOOLEAN : SelectMineReturns(p, e)
  \/ \E p \in Handlers, e \in BOOLEAN : SelectAllReturns(p, e)
  \/ \E p \in Handlers, u \in Principals \cup {NoId} : GetUserReturns(p, u)
  \/ \E p \in Handlers, e \in BOOLEAN : FetchUserRoleReturns(p, e)

SpecCatalog == InitCatalog /\ [][NextCatalog]_vars

\* the store answers an insert it was sent, and the event loop then runs the
\* handler's continuation
FairTwoClasses ==
  /\ SpecTwoClasses
  /\ \A p \in Handlers :
       WF_vars(\E e \in BOOLEAN : InsertRegistrationReturns(p, e))

\* ---- properties ---------------------------------------------------------

\* number of 201 responses to registrations for a class
AdmittedFor(classId) ==
  LET RECURSIVE Sum(_)
      Sum(S) == IF S = {} THEN 0
                ELSE LET k == CHOOSE x \in S : TRUE
                     IN admitted[k] + Sum(S \ {k})
  IN Sum({k \in DOMAIN admitted : k[1] = classId})

Pairs == ClassIds \X Principals

\* C1: for every class, the number of stored registrations and the number of
\* Admitted (201) outcomes never exceed the capacity of the class, whatever
\* the interleaving of the registration handlers.
C1_CapacityInvariant ==
  \A r \in community_classes :
    /\ CountFor(r.id) <= r.capacity
    /\ AdmittedFor(r.id) <= r.capacity

\* C2: for every (classId, memberId) the ledger holds at most one
\* registration and at most one attempt was ever answered Admitted (201).
C2_AtMostOneAdmission ==
  \A k \in Pairs : class_registrations[k] <= 1 /\ admitted[k] <= 1

\* two attempts of one member ran concurrently: the store refused the second
\* insert, the first was admitted
C2_Witness ==
  \E p \in Handlers, k \in Pairs :
    /\ handler[p].pc = "done"
    /\ handler[p].op = "register"
    /\ handler[p].reason = "UniqueViolation"
    /\ admitted[k] = 1

\* C3: in a class of capacity 1, of two concurrent attempts by distinct
\* members exactly one is Admitted: at most one 201 is ever given for the
\* class, and the attempt whose insert reaches the store after another
\* member's was admitted is answered 409 (unless the store fails).
C3_ScenarioA ==
  /\ [](\A r \in community_classes : r.capacity = 1 => AdmittedFor(r.id) <= 1)
  /\ [][\A p \in Handlers :
        (/\ handler[p].pc = "insertRegistration"
         /\ handler'[p].pc = "done"
         /\ CapacityOf(handler[p].classRecord) = 1
         /\ class_registrations[<<handler[p].body.classId, handler[p].user>>] = 0
         /\ CountFor(handler[p].body.classId) >= 1
         /\ handler'[p].reason # "StoreError")
        => handler'[p].status = 409]_vars

\* C4: an insert the store refuses for the uniqueness of (class_id,
\* member_id) is answered 409 AlreadyRegistered, like a request that fails
\* at the existence check.
C4_UniqueConflictIsAlreadyRegistered ==
  [][\A p \in Handlers :
      (/\ handler[p].pc = "insertRegistration"
       /\ handler'[p].pc = "done"
       /\ UniqueViolation(handler[p].body.classId, handler[p].user)
       /\ handler'[p].reason # "StoreError")
      => /\ handler'[p].status = 409
         /\ handler'[p].reason = "AlreadyRegistered"]_vars

\* C5: a registration request of a member who was already registered for
\* the class when the request was authenticated is never admitted: it is
\* answered 409 AlreadyRegistered, never ClassFull, ClassNotFound or 201
\* (the only other answers are 403 when the member role is no longer read
\* and the store's failure to answer a read).
C5_IdempotentRejection ==
  \A p \in Handlers :
    (handler[p].pc = "done" /\ handler[p].op = "register" /\ handler[p].already)
    => \/ handler[p].status = 409 /\ handler[p].reason = "AlreadyRegistered"
       \/ handler[p].status = 403
       \/ handler[p].reason = "StoreError" /\ ~handler[p].wrote

\* a repeated request was answered AlreadyRegistered while the class is full
C5_Witness ==
  \E p \in Handlers, r \in community_classes :
    /\ handler[p].pc = "done"
    /\ handler[p].op = "register"
    /\ handler[p].already
    /\ handler[p].reason = "AlreadyRegistered"
    /\ CountFor(r.id) >= r.capacity

\* C6: when the role read for the caller is member, class creation is
\* answered 403; when it is admin, registration is answered 403; in both
\* cases the request has written nothing and the step changes no table.
C6_RoleGate ==
  [][\A p \in Handlers :
      (/\ handler[p].pc = "fetchUserRole"
       /\ handler'[p] # handler[p]
       /\ \/ handler[p].op = "createClass" /\ users[handler[p].user] = "member"
          \/ handler[p].op = "register" /\ users[handler[p].user] = "admin")
      => /\ handler'[p].pc = "done"
         /\ handler'[p].status = 403
         /\ handler'[p].wrote = FALSE
         /\ UNCHANGED <<users, community_classes, class_registrations>>]_vars

\* a member was refused class creation and an admin was refused registration
C6_Witness ==
  \E p, q \in Handlers :
    /\ handler[p].pc = "done" /\ handler[q].pc = "done"
    /\ handler[p].op = "createClass" /\ handler[p].reason = "InsufficientRole"
    /\ handler[q].op = "register" /\ handler[q].reason = "InsufficientRole"

\* C7: a registration request whose class lookup finds no row is answered
\* 404 ClassNotFound, has written nothing, and the ledger is unchanged.
C7_UnknownClass ==
  [][\A p \in Handlers :
      (/\ handler[p].pc = "classLookup"
       /\ handler'[p] # handler[p]
       /\ ClassRows(handler[p].body.classId) = {}
       /\ handler'[p].reason # "StoreError")
      => /\ handler'[p].pc = "done"
         /\ handler'[p].status = 404
         /\ handler'[p].reason = "ClassNotFound"
         /\ handler'[p].wrote = FALSE
         /\ UNCHANGED <<class_registrations, admitted>>]_vars

C7_Witness ==
  \E p \in Handlers :
    /\ handler[p].pc = "done"
    /\ handler[p].op = "register"
    /\ handler[p].status = 404
    /\ handler[p].reason = "ClassNotFound"
    /\ community_classes = {}

\* C8: every class in the catalog has capacity >= 1, and a class-creation
\* request of an admin (one that passes the role gate) with capacity <= 0
\* is answered 400 without any class being stored.
C8_PositiveCapacity ==
  /\ [](\A r \in community_classes : r.capacity >= 1)
  /\ [][\A p \in Handlers :
        (/\ handler[p].pc = "fetchUserRole"
         /\ handler'[p] # handler[p]
         /\ handler[p].op = "createClass"
         /\ handler[p].body.capacity <= 0
         /\ handler'[p].status # 403)
        => /\ handler'[p].pc = "done"
           /\ handler'[p].status = 400
           /\ handler'[p].wrote = FALSE
           /\ community_classes' = community_classes]_vars

\* an admin's request with a well-formed body of capacity 0 or -1 got 400
C8_Witness ==
  \E p \in Handlers :
    /\ handler[p].pc = "done"
    /\ handler[p].op = "createClass"
    /\ handler[p].status = 400
    /\ handler[p].body.wellFormed
    /\ handler[p].body.capacity <= 0
    /\ community_classes # {}

\* C9: a request answered 400, 401 or 403 has attempted no insert or upsert.
C9_FailFast ==
  \A p \in Handlers :
    (handler[p].pc = "done" /\ handler[p].status \in {400, 401, 403})
    => handler[p].wrote = FALSE

\* a validation failure and an authorization failure, after writes of others
C9_Witness ==
  \E p, q \in Handlers :
    /\ handler[p].pc = "done" /\ handler[p].status = 400
    /\ handler[q].pc = "done" /\ handler[q].status = 403
    /\ community_classes # {}

\* C10: no operation of the API changes the role of a principal that has
\* one, and the only role the API writes is member.
C10_RoleNeverChangedByApi ==
  [][\A u \in Principals :
      users'[u] # users[u]
      => \/ \E r \in UserRole : SetRoleOutOfBand(u, r)
         \/ users[u] = NoRole /\ users'[u] = "member"]_vars

\* C11: the listing takes the caller's registrations as they are stored
\* when it selects them, and answers one item per class it selected, whose
\* registrationCount is the number of rows stored for the class when the
\* last select is answered and whose isRegistered is true exactly when the
\* caller's rows held the class; an item reported as registered has its row
\* in the ledger.
C11_ListingAnnotations ==
  [][\A p \in Handlers :
      (handler'[p] # handler[p] /\ handler[p].op = "memberClasses")
      => LET h == handler[p]
             g == handler'[p]
         IN /\ (h.pc = "selectMine" /\ g.pc = "selectAll")
                => g.registeredClassIds =
                     {r.id : r \in {x \in community_classes :
                        class_registrations[<<x.id, h.user>>] > 0}}
            /\ (h.pc = "selectAll" /\ g.status = 200)
                => /\ {i.id : i \in g.payload} = {r.id : r \in h.classRecord}
                   /\ Cardinality(g.payload) = Cardinality(h.classRecord)
                   /\ \A i \in g.payload :
                        /\ i.registrationCount = CountFor(i.id)
                        /\ i.isRegistered <=> i.id \in h.registeredClassIds
                        /\ i.isRegistered
                            => class_registrations[<<i.id, h.user>>] = 1]_vars

\* two members are registered for the class of capacity 2 and a third, not
\* registered, was shown a count of 2 and isRegistered false
C11_Witness ==
  \E p \in Handlers, u \in ListPrincipals :
    /\ handler[p].pc = "done"
    /\ handler[p].op = "memberClasses"
    /\ handler[p].payload =
         {[id |-> 1, capacity |-> 2, registrationCount |-> 2, isRegistered |-> FALSE]}
    /\ class_registrations[<<1, u>>] = 0
    /\ CountFor(1) = 2

\* C12: the role gate of every request is decided by the role stored when
\* its role lookup is answered: a request passes the gate only if that role
\* is allowed for the endpoint, and GET /api/auth/me reports that role.
C12_CurrentRoleDecides ==
  [][\A p \in Handlers :
      (handler[p].pc = "fetchUserRole" /\ handler'[p] # handler[p])
      => LET stored == users[handler[p].user]
             allowed == IF handler[p].op = "createClass" THEN stored = "admin"
                        ELSE IF handler[p].op = "register" THEN stored = "member"
                        ELSE stored \in UserRole
         IN /\ ~allowed => handler'[p].status = 403
            /\ handler'[p].status = 200
                 => handler'[p].payload =
                      {[userId |-> handler[p].user, role |-> stored]}]_vars

\* a principal promoted after signup is reported as admin, and a request of
\* a principal that is no longer member was refused
C12_Witness ==
  \E p, q \in Handlers, u \in Principals :
    /\ handler[p].pc = "done" /\ handler[p].op = "me"
    /\ handler[p].payload = {[userId |-> u, role |-> "admin"]}
    /\ handler[q].pc = "done" /\ handler[q].op = "register"
    /\ handler[q].reason = "InsufficientRole"

\* reasons that stand for the store's own error.message, which the handlers
\* copy into the response body
RawStoreErrors == {"StoreError", "UniqueViolation", "CheckViolation"}

\* C13: no response carries the store's own error: a failure of the store
\* reaches the caller as Conflict (409) or Unavailable.
C13_StoreErrorsMapped ==
  \A p \in Handlers :
    handler[p].pc = "done" => handler[p].reason \notin RawStoreErrors

\* C15 as stated: the responses of GET /api/auth/me are 200 and 401 only.
C15_MeOnly401 ==
  \A p \in Handlers :
    (handler[p].pc = "done" /\ handler[p].op = "me")
    => handler[p].status \in {200, 401}

\* C15 as amended: GET /api/auth/me answers 200 with the principal's id and
\* stored role when the role lookup finds a role, 401 without a valid
\* credential (before any table is read), and 403 when no role is found.
C15_MeOutcomes ==
  /\ [](\A p \in Handlers :
         (handler[p].pc = "done" /\ handler[p].op = "me")
         => \/ /\ handler[p].status = 200
               /\ \E u \in Principals, r \in UserRole :
                    handler[p].payload = {[userId |-> u, role |-> r]}
            \/ handler[p].status = 401 /\ ~handler[p].read
            \/ handler[p].status = 403 /\ handler[p].reason = "NoRole")
  /\ [][\A p \in Handlers :
        (/\ handler[p].pc = "fetchUserRole"
         /\ handler'[p] # handler[p]
         /\ handler[p].op = "me")
        => /\ handler'[p].pc = "done"
           /\ UNCHANGED <<users, community_classes, class_registrations>>
           /\ \/ /\ handler'[p].status = 200
                 /\ handler'[p].payload =
                      {[userId |-> handler[p].user, role |-> users[handler[p].user]]}
              \/ handler'[p].status = 403 /\ handler'[p].reason = "NoRole"
           /\ users[handler[p].user] = NoRole => handler'[p].status = 403]_vars

\* one caller got its id and role, another, without a role, got 403
C15_Witness ==
  \E p, q \in Handlers :
    /\ handler[p].pc = "done" /\ handler[p].op = "me" /\ handler[p].status = 200
    /\ handler[q].pc = "done" /\ handler[q].op = "me" /\ handler[q].status = 403

\* C16: a request to a bearer-protected endpoint whose header is absent or
\* malformed, or whose token the provider rejects, is answered 401 and has
\* read no table and written nothing; no other request is answered 401.
C16_Unauthenticated ==
  \A p \in Handlers :
    (handler[p].pc = "done" /\ handler[p].op \notin {"none", "signup"})
    => /\ (\/ handler[p].header \in {"absent", "malformed"}
           \/ handler[p].reason = "InvalidToken")
          => /\ handler[p].status = 401
             /\ ~handler[p].read
             /\ ~handler[p].wrote
             /\ handler[p].payload = {}
       /\ handler[p].status = 401
          => handler[p].reason \in {"MissingToken", "InvalidToken"}
       /\ handler[p].reason = "MissingToken"
          => handler[p].header \in {"absent", "malformed"}

\* a malformed header and a rejected token were refused while the tables
\* hold data
C16_Witness ==
  \E p, q \in Handlers :
    /\ handler[p].pc = "done" /\ handler[p].header = "malformed"
    /\ handler[p].status = 401
    /\ handler[q].pc = "done" /\ handler[q].reason = "InvalidToken"
    /\ handler[q].status = 401
    /\ community_classes # {}

\* position of a step in the registration handler
RegisterRank(pc) ==
  CASE pc = "getUser" -> 1
    [] pc = "fetchUserRole" -> 2
    [] pc = "classLookup" -> 3
    [] pc = "existingRegistration" -> 4
    [] pc = "count" -> 5
    [] pc = "insertRegistration" -> 6
    [] pc = "done" -> 7
    [] OTHER -> 0

\* C17: a handler has sent a response exactly when it has returned; a
\* registration handler only moves forward through its steps (none is
\* repeated); and once it has responded it does nothing more: the next
\* change of its slot is a new request arriving, which changes no table.
C17_ResolvesOnce ==
  /\ [](\A p \in Handlers : (handler[p].status # 0) <=> (handler[p].pc = "done"))
  /\ [][\A p \in Handlers :
        handler'[p] # handler[p]
        => IF handler[p].pc \in {"idle", "done"}
           THEN /\ handler'[p].pc \in {"getUser", "signUp", "done"}
                /\ UNCHANGED <<users, community_classes, class_registrations>>
           ELSE handler[p].op = "register"
                => /\ handler'[p].op = "register"
                   /\ RegisterRank(handler'[p].pc) > RegisterRank(handler[p].pc)]_vars

\* one attempt was rejected as full, another was admitted
C17_Witness ==
  \E p, q \in Handlers :
    /\ handler[p].pc = "done" /\ handler[p].op = "register"
    /\ handler[p].reason = "ClassFull"
    /\ handler[q].pc = "done" /\ handler[q].op = "register"
    /\ handler[q].status = 201

\* C18: the registration handler decides in the order class lookup,
\* existence check, capacity check, insert: each step is reached only from
\* the one before it and only when that one passed; 404 is sent at the class
\* lookup only, before any read of the ledger; a member already registered
\* is answered AlreadyRegistered at the existence check, full class or not;
\* ClassFull is sent at the capacity check only.
C18_DecisionSequence ==
  [][\A p \in Handlers :
      (handler'[p] # handler[p] /\ handler'[p].op = "register")
      => LET h == handler[p]
             g == handler'[p]
         IN /\ g.pc = "classLookup" => h.pc = "fetchUserRole"
            /\ g.pc = "existingRegistration"
                 => h.pc = "classLookup" /\ ClassRows(h.body.classId) # {}
            /\ g.pc = "count"
                 => /\ h.pc = "existingRegistration"
                    /\ class_registrations[<<h.body.classId, h.user>>] = 0
            /\ g.pc = "insertRegistration"
                 => /\ h.pc = "count"
                    /\ CountFor(h.body.classId) < CapacityOf(h.classRecord)
            /\ g.reason = "ClassNotFound" => h.pc = "classLookup"
            /\ g.reason = "AlreadyRegistered" => h.pc = "existingRegistration"
            /\ g.reason = "ClassFull" => h.pc = "count"
            /\ (/\ h.pc = "existingRegistration"
                /\ class_registrations[<<h.body.classId, h.user>>] >= 1
                /\ g.reason # "StoreError")
               => g.status = 409 /\ g.reason = "AlreadyRegistered"]_vars

\* a member registered for a full class of capacity 1 asked again
C18_Witness ==
  \E p \in Handlers, r \in community_classes :
    /\ handler[p].pc = "done"
    /\ handler[p].op = "register"
    /\ handler[p].reason = "AlreadyRegistered"
    /\ r.capacity = 1
    /\ CountFor(r.id) >= 1

\* C19: when the registration attempts do not overlap, the attempt of a
\* member not yet registered is rejected with 409 ClassFull, writing
\* nothing, when the count is at or above the capacity, and otherwise goes
\* on to its insert, which finds the count still below the capacity and the
\* member still unregistered and, unless the store fails, adds the row and
\* answers 201; 201 is given nowhere else; so neither the count nor the
\* number of 201 responses of a class ever exceeds its capacity.
C19_Sequential ==
  /\ [](\A r \in community_classes :
         CountFor(r.id) <= r.capacity /\ AdmittedFor(r.id) <= r.capacity)
  /\ [][\A p \in Handlers :
        (handler'[p] # handler[p] /\ handler[p].op = "register")
        => LET h == handler[p]
               g == handler'[p]
               k == <<h.body.classId, h.user>>
           IN /\ h.pc = "count"
                   => /\ class_registrations[k] = 0
                      /\ g.reason # "StoreError"
                          => IF CountFor(k[1]) >= CapacityOf(h.classRecord)
                             THEN /\ g.pc = "done"
                                  /\ g.status = 409
                                  /\ g.reason = "ClassFull"
                                  /\ ~g.wrote
                                  /\ class_registrations' = class_registrations
                             ELSE g.pc = "insertRegistration"
              /\ h.pc = "insertRegistration"
                   => /\ class_registrations[k] = 0
                      /\ CountFor(k[1]) < CapacityOf(h.classRecord)
                      /\ g.reason # "StoreError"
                          => /\ g.status = 201
                             /\ class_registrations' =
                                  [class_registrations EXCEPT ![k] = 1]
              /\ g.status = 201 => h.pc = "insertRegistration"]_vars

\* a class of capacity 1 took one member and refused the next
C19_Witness ==
  \E p \in Handlers, r \in community_classes :
    /\ handler[p].pc = "done"
    /\ handler[p].op = "register"
    /\ handler[p].reason = "ClassFull"
    /\ ~handler[p].wrote
    /\ r.capacity = 1
    /\ CountFor(r.id) = 1
    /\ AdmittedFor(r.id) = 1

\* C14: a step of a registration attempt for class A changes no row of
\* another class, no class and no role, and what it decides is a function
\* of the rows of class A alone (and of the store answering at all):
\* AlreadyRegistered exactly when A holds a row of the member, ClassFull
\* exactly when A holds as many rows as its capacity, 201 exactly when the
\* insert finds no row of the member in A.  So attempts for another class,
\* however interleaved, change neither the outcome for A nor the rows of A.
C14_ClassesIndependent ==
  [][\A p \in Handlers :
      (/\ handler'[p] # handler[p]
       /\ handler[p].op = "register"
       /\ handler[p].pc \in {"classLookup", "existingRegistration",
                              "count", "insertRegistration"})
      => LET h == handler[p]
             g == handler'[p]
             a == h.body.classId
             rowsA == {k \in DOMAIN class_registrations :
                         k[1] = a /\ class_registrations[k] > 0}
             classA == CHOOSE r \in community_classes : r.id = a
         IN /\ \A k \in DOMAIN class_registrations :
                 k[1] # a => class_registrations'[k] = class_registrations[k]
            /\ UNCHANGED <<users, community_classes>>
            /\ g.reason # "StoreError"
                => /\ h.pc = "existingRegistration"
                       => (g.reason = "AlreadyRegistered" <=> <<a, h.user>> \in rowsA)
                   /\ h.pc = "count"
                       => (g.reason = "ClassFull"
                             <=> Cardinality(rowsA) >= classA.capacity)
                   /\ h.pc = "insertRegistration"
                       => (g.status = 201 <=> <<a, h.user>> \notin rowsA)]_vars

\* an attempt for class 2 is at its insert while class 1 took a member and
\* class 2 holds a row of the other member
C14_Witness ==
  \E p, q \in Handlers :
    /\ handler[p].pc = "done" /\ handler[p].status = 201
    /\ handler[q].pc = "insertRegistration" /\ handler[q].body.classId = 2
    /\ CountFor(1) = 1
    /\ CountFor(2) = 1

\* C20: under fair scheduling, a registration attempt that has issued its
\* insert is eventually answered, 201 (admitted) or an error (rejected),
\* and no step ever removes a row of the ledger.
C20_InsertCompletes ==
  /\ \A p \in Handlers :
       (handler[p].pc = "insertRegistration")
         ~> (/\ handler[p].pc = "done"
             /\ handler[p].op = "register"
             /\ handler[p].wrote
             /\ handler[p].status \in {201, 500})
  /\ [][\A k \in DOMAIN class_registrations :
          class_registrations'[k] >= class_registrations[k]]_vars

\* one attempt was admitted and its row is stored while another has issued
\* its insert
C20_Witness ==
  \E p, q \in Handlers, k \in DOMAIN class_registrations :
    /\ handler[p].pc = "done" /\ handler[p].status = 201 /\ handler[p].wrote
    /\ class_registrations[k] = 1 /\ admitted[k] = 1
    /\ handler[q].pc = "insertRegistration"
    /\ handler[q].body.classId = k[1]

\* C21: no step removes or changes a row of the ledger: the rows of every
\* (class, member) pair, and so the registration count of every class,
\* never decrease, and they change only at the insert of a registration
\* handler.
C21_RegistrationsOnlyGrow ==
  [][/\ \A k \in DOMAIN class_registrations :
          class_registrations'[k] >= class_registrations[k]
     /\ \A c \in ClassIdSpace :
          LET rows == {k \in DOMAIN class_registrations : k[1] = c}
          IN Cardinality({k \in rows : class_registrations'[k] > 0})
               >= Cardinality({k \in rows : class_registrations[k] > 0})
     /\ class_registrations' # class_registrations
          => \E p \in Handlers :
               /\ handler[p].pc = "insertRegistration"
               /\ handler'[p].status = 201]_vars

\* a class holds two rows while a later request, refused, left them alone
C21_Witness ==
  \E p \in Handlers, c \in ClassIdSpace :
    /\ CountFor(c) = 2
    /\ handler[p].pc = "done"
    /\ handler[p].op = "register"
    /\ handler[p].status = 409

\* C24: on the two role-gated write endpoints a request with an invalid
\* payload is answered 401 when it has no valid credential and 403 when the
\* caller's role is not the endpoint's; 400 is given only at the step after
\* the role lookup and only to a caller whose stored role is the endpoint's.
C24_AuthBeforeValidation ==
  [][\A p \in Handlers :
      handler'[p] # handler[p]
      => LET h == handler[p]
             g == handler'[p]
             invalid == \/ h.op = "createClass" /\ ~createClassSchema(h.body)
                        \/ h.op = "register" /\ ~registerSchema(h.body)
         IN /\ (/\ h.pc \in {"idle", "done"}
                /\ g.op \in {"createClass", "register"}
                /\ g.header \in {"absent", "malformed"})
               => g.status = 401
            /\ (h.pc = "getUser" /\ invalid /\ g.pc = "done") => g.status = 401
            /\ (/\ h.pc = "fetchUserRole" /\ invalid
                /\ \/ h.op = "createClass" /\ users[h.user] = "member"
                   \/ h.op = "register" /\ users[h.user] = "admin")
               => g.status = 403
            /\ (g.reason = "InvalidPayload" /\ g.op \in {"createClass", "register"})
               => /\ h.pc = "fetchUserRole"
                  /\ users[h.user] = IF g.op = "createClass" THEN "admin"
                                     ELSE "member"]_vars

\* a member's request to create a class was refused 403 and another, with
\* an invalid payload, is at the role lookup; an admin's invalid payload
\* was answered 400 before
C24_Witness ==
  \E p, q \in Handlers :
    /\ handler[p].pc = "done" /\ handler[p].op = "createClass"
    /\ handler[p].reason = "InsufficientRole"
    /\ handler[q].pc = "fetchUserRole" /\ handler[q].op = "createClass"
    /\ ~createClassSchema(handler[q].body)
    /\ users[handler[q].user] = "member"

\* C22: no step changes or removes a class row, a class id has one row, and
\* rows are added only by the insert of the class handler; so when a
\* registration handler is answered its insert, the row its class lookup
\* returned is still the stored row of the class, with the same capacity.
C22_ClassImmutable ==
  [][/\ \A r \in community_classes : r \in community_classes'
     /\ \A r1, r2 \in community_classes' : r1.id = r2.id => r1 = r2
     /\ community_classes' # community_classes
          => \E p \in Handlers :
               /\ handler[p].pc = "insertClass"
               /\ handler'[p].status = 201
     /\ \A p \in Handlers :
          (handler[p].pc = "insertRegistration" /\ handler'[p] # handler[p])
          => LET h == handler[p]
                 stored == {r \in community_classes : r.id = h.body.classId}
             IN /\ h.classRecord = stored
                /\ \A r \in stored : r.capacity = CapacityOf(h.classRecord)]_vars

\* a second class was created while an admission for the first is between
\* its class lookup and its insert
C22_Witness ==
  \E p \in Handlers :
    /\ handler[p].pc = "insertRegistration"
    /\ handler[p].body.classId = 1
    /\ Cardinality(community_classes) = 2
    /\ handler[p].classRecord \subseteq community_classes

\* C25: the row a registration handler inserts has the class of its body
\* and, as member, the user its token resolved to, whatever else the body
\* names; the row a class handler inserts has that user as created_by; so
\* every stored registration belongs to a member and every class to the
\* admin (the roles do not change in this specification).
C25_RowsOfThePrincipal ==
  /\ [](/\ \A k \in DOMAIN class_registrations :
             class_registrations[k] > 0 => users[k[2]] = "member"
         /\ \A r \in community_classes : users[r.created_by] = "admin")
  /\ [][\A p \in Handlers :
        LET h == handler[p]
            g == handler'[p]
        IN /\ (h.pc = "insertRegistration" /\ g.status = 201)
               => class_registrations' =
                    [class_registrations EXCEPT ![<<h.body.classId, h.user>>] = @ + 1]
           /\ (h.pc = "insertClass" /\ g.status = 201)
               => \E r \in community_classes' :
                    /\ community_classes' \ community_classes = {r}
                    /\ r.created_by = h.user]_vars

\* member 2 holds a row, the admin's class exists, and a request whose body
\* names principal 1 has issued its insert
C25_Witness ==
  \E p \in Handlers, c \in ClassPair :
    /\ class_registrations[<<c, 2>>] = 1
    /\ handler[p].pc = "insertRegistration"
    /\ handler[p].body.email = 1
    /\ handler[p].user = 2
    /\ \E r \in community_classes : r.created_by = 1

\* C26: whatever is inserted between the three selects of a listing, an
\* item of its response with isRegistered true has registrationCount >= 1,
\* and the response has exactly the classes of the first select: a class
\* created later is absent, registrations or not.
C26_ListingUnderInserts ==
  /\ [](\A p \in Handlers :
         (handler[p].pc = "done" /\ handler[p].op = "memberClasses")
         => \A i \in handler[p].payload :
              i.isRegistered => i.registrationCount >= 1)
  /\ [][\A p \in Handlers :
        (/\ handler[p].op = "memberClasses"
         /\ handler[p].pc = "selectAll"
         /\ handler'[p].status = 200)
        => LET ids == {i.id : i \in handler'[p].payload}
           IN /\ ids = {r.id : r \in handler[p].classRecord}
              /\ \A r \in community_classes \ handler[p].classRecord :
                   r.id \notin ids]_vars

\* the response shows class 1 with the caller registered, and lacks class
\* 2, which was created and took the caller while the listing ran
C26_Witness ==
  \E p \in Handlers :
    /\ handler[p].pc = "done"
    /\ handler[p].op = "memberClasses"
    /\ \E i \in handler[p].payload : i.id = 1 /\ i.isRegistered
    /\ \A i \in handler[p].payload : i.id # 2
    /\ \E r \in community_classes : r.id = 2
    /\ CountFor(2) >= 1

\* C23: a signup whose provider call returned a user answers 201 only with
\* role member stored for that user by the same upsert, and otherwise
\* answers 500 and leaves the users table as it was; and a principal with
\* no role stored is answered 403 at the role lookup of login and of every
\* bearer-protected endpoint, which changes no table.
C23_SignupStoresRole ==
  [][\A p \in Handlers :
      handler'[p] # handler[p]
      => LET h == handler[p]
             g == handler'[p]
         IN /\ h.pc = "upsertUserRole"
                => /\ g.pc = "done"
                   /\ g.status \in {201, 500}
                   /\ g.status = 201 => users'[h.user] = "member"
                   /\ g.status = 500 => users' = users
            /\ (g.op = "signup" /\ g.status = 201)
                => \/ h.pc = "upsertUserRole"
                   \/ h.pc = "signUp" /\ users' = users
            /\ (/\ h.pc \in {"fetchUserRole", "loginFetchUserRole"}
                /\ users[h.user] = NoRole)
               => /\ g.pc = "done"
                  /\ g.status = 403
                  /\ g.reason = "NoRole"
                  /\ UNCHANGED <<users, community_classes, class_registrations>>]_vars

\* a signup failed at its upsert, no principal has a role, and a login was
\* refused with 403
C23_Witness ==
  \E p, q \in Handlers :
    /\ handler[p].pc = "done" /\ handler[p].op = "signup"
    /\ handler[p].status = 500 /\ handler[p].wrote
    /\ handler[q].pc = "done" /\ handler[q].op = "login"
    /\ handler[q].status = 403
    /\ \A u \in Principals : users[u] = NoRole

====
